---------------------------- MODULE Spec2Model ----------------------------
(***************************************************************************)
(* Model of the number-aggregation server of server.go: numbersHandler,    *)
(* processURLs and its fetcher goroutines (getResponseFromURL,             *)
(* makeGetRequestForURL), the shared serverCache (getResultFromCache,      *)
(* updateCache) and the reducer processFinalResult.                        *)
(*                                                                         *)
(* Every access to serverCache (Get, Delete, Add) takes the cache's mutex  *)
(* and is one atomic step; updateCache is two such steps.  A send on the   *)
(* unbuffered channel ch and its receive in processURLs are one step.      *)
(***************************************************************************)
EXTENDS Integers, Sequences, FiniteSets, TLC

\* ------------------------------------------------------------- bounds
\* Number of requests (calls of numbersHandler / processURLs) in one run.
NReq == 2
\* Largest number of "u" query values of one request.
MaxK == 2
\* Largest number of sources all requests of one run name together.
MaxSources == 2
\* The clock stops advancing here.
MaxTime == 2
\* Longest results slice handed to processFinalResult in SpecReduce.
MaxRes == 3

\* ---------------------------------------------------------- constants
\* cacheExpiration, in clock ticks of ten minutes.
cacheExpiration == 1

Reqs == 1..NReq

\* The sources a request may name.  uBad does not parse as a URL, so
\* http.NewRequestWithContext fails for it.
u1 == "http://s1"
u2 == "http://s2"
uBad == "http://%zz"
URLs == {u1, u2, uBad}

Malformed(u) == u = uBad

\* What the server behind a source may answer with, when it answers with a
\* decodable body.  The numbers of different sources are disjoint.
ResponsesOf(u) ==
    IF u = u1 THEN {<<>>, <<1, 5>>, <<2>>}
    ELSE IF u = u2 THEN {<<>>, <<6, 9>>}
    ELSE {<<>>}

RECURSIVE SeqsUpTo(_, _)
SeqsUpTo(S, n) ==
    IF n = 0 THEN {<<>>}
    ELSE LET shorter == SeqsUpTo(S, n - 1)
         IN  shorter \cup {Append(s, x) : s \in {t \in shorter : Len(t) = n - 1}, x \in S}

Responses == UNION {ResponsesOf(u) : u \in URLs}

\* n[1] + ... + n[k]
RECURSIVE Sum(_, _)
Sum(n, k) == IF k = 0 THEN 0 ELSE n[k] + Sum(n, k - 1)

URLLists == SeqsUpTo(URLs, MaxK)

Methods == {"GET", "POST"}
Paths == {"/numbers", "/nums"}

VARIABLES
    now,        \* the clock, in ticks
    steady,     \* per source: the list it answers with in SpecTwice (not read elsewhere)
    cache,      \* serverCache.items: per key, the item or NoItem
    lastWrite,  \* history: per key, the item of the call of updateCache that returned last
    rpc,        \* per request: "idle", "collect" (in the receive loop), "reduce" (processURLs has returned), "done"
    via,        \* per request: "handler" (numbersHandler) or "direct" (processURLs called as the tests do)
    asked,      \* per request: the method and path numbersHandler was called with
    urls,       \* per request: the urls argument of processURLs
    ctx,        \* per request: childCtx: "live", done by "parent" or "deadline", or "cancel": cancel() has run
    results,    \* per request: the results slice of processURLs
    final,      \* per request: what processFinalResult returned
    response,   \* per request: status and body written by numbersHandler
    fpc,        \* per fetcher: "none", "start", "inflight", "add", "send", "done"
    out,        \* per fetcher: the list it sends (in "add": the decoded numbers)
    err,        \* per fetcher: the failure that made it fall back, or "none"
    replaced,   \* per fetcher: history: the item its serverCache.Delete removed
    attempts,   \* per fetcher: history: calls of client.Do while its request runs
    sends       \* per fetcher: history: sends on ch

cacheVars == <<cache, lastWrite>>
reqVars == <<rpc, via, asked, urls, ctx, results, final, response>>
fetVars == <<fpc, out, err, replaced, attempts, sends>>
vars == <<now, steady, cache, lastWrite, rpc, via, asked, urls, ctx, results, final, response,
          fpc, out, err, replaced, attempts, sends>>

Fetchers == Reqs \X (1..MaxK)

\* ------------------------------------------------------------ the cache
NoItem == [present |-> FALSE, val |-> <<>>, exp |-> 0]

\* An item stored at time t with the expiration cacheExpiration.
Item(numbers, t) == [present |-> TRUE, val |-> numbers, exp |-> t + cacheExpiration]

\* go-cache's lookup: an item whose Expiration the clock has passed is not found.
Found(c, u, t) == c[u].present /\ ~(t > c[u].exp)

\* Mutant of getResultFromCache: on a miss, the list of another key is good enough.
getResultFromCacheAny(c, u, t) ==
    IF Found(c, u, t) THEN c[u].val
    ELSE IF \E v \in DOMAIN c : Found(c, v, t)
         THEN c[CHOOSE v \in DOMAIN c : Found(c, v, t)].val
         ELSE <<>>

\* serverCache.Get(url) as getResultFromCache uses it: the stored list, nil on a miss.
getResultFromCache(c, u, t) == IF Found(c, u, t) THEN c[u].val ELSE <<>>

\* Mutant of CacheDelete: updateCache does not delete before it adds.
CacheDeleteMissing(c, u) == c

\* serverCache.Delete(url)
CacheDelete(c, u) == [c EXCEPT ![u] = NoItem]

\* serverCache.Add(url, numbers, cacheExpiration): refuses (error, which updateCache
\* ignores) when an unexpired item is stored under the key.
CacheAdd(c, u, numbers, t) ==
    IF Found(c, u, t) THEN c
    ELSE [c EXCEPT ![u] = Item(numbers, t)]

\* --------------------------------------------------- processFinalResult
\* Mutant of MakeSlice: var uniqueNumbersSlice []int, a nil slice.
MakeSliceNil == [isNil |-> TRUE, items |-> <<>>]

\* A Go []int: nil or not, and its elements.
MakeSlice == [isNil |-> FALSE, items |-> <<>>]

AppendInt(s, x) == [isNil |-> FALSE, items |-> Append(s.items, x)]

\* Inserts x into the ascending sequence s.
RECURSIVE Insert(_, _)
Insert(s, x) ==
    IF s = <<>> THEN <<x>>
    ELSE IF x <= Head(s) THEN <<x>> \o s
    ELSE <<Head(s)>> \o Insert(Tail(s), x)

\* Mutant of SortInts: the slice is returned as collected.
SortIntsMissing(s) == s

\* sort.Ints
RECURSIVE SortInts(_)
SortInts(s) == IF s = <<>> THEN <<>> ELSE Insert(SortInts(Tail(s)), Head(s))

\* Mutant of AddNumbers: the membership test is missing, every number is appended.
RECURSIVE AddNumbersAll(_, _)
AddNumbersAll(acc, nums) ==
    IF nums = <<>> THEN acc
    ELSE AddNumbersAll(<<acc[1] \cup {Head(nums)}, [isNil |-> FALSE, items |-> Append(acc[2].items, Head(nums))]>>,
                       Tail(nums))

\* The inner loop over r.data.Numbers: acc is <<uniqueNumbers, uniqueNumbersSlice>>.
RECURSIVE AddNumbers(_, _)
AddNumbers(acc, nums) ==
    IF nums = <<>> THEN acc
    ELSE LET num == Head(nums)
         IN  IF num \in acc[1]
             THEN AddNumbers(acc, Tail(nums))
             ELSE AddNumbers(<<acc[1] \cup {num}, AppendInt(acc[2], num)>>, Tail(nums))

\* The outer loop over res.
RECURSIVE AddResults(_, _)
AddResults(acc, res) ==
    IF res = <<>> THEN acc
    ELSE AddResults(AddNumbers(acc, Head(res)), Tail(res))

processFinalResult(res) ==
    LET uniqueNumbersSlice == AddResults(<<{}, MakeSlice>>, res)[2]
    IN  [isNil |-> uniqueNumbersSlice.isNil, items |-> SortInts(uniqueNumbersSlice.items)]

\* json.NewEncoder(w).Encode(payload{Numbers: s}): a nil slice is written as null.
EncodePayload(s) == [isNull |-> s.isNil, numbers |-> s.items]

NoRequest == [method |-> "", path |-> ""]
NoResponse == [status |-> 0, body |-> [isNull |-> TRUE, numbers |-> <<>>]]
NoFinal == [isNil |-> TRUE, items |-> <<>>]

\* -------------------------------------------------------------- Init
\* The cache as the test "timeout - cached result" fills it before it calls
\* processURLs: updateCache(server1.URL, {1, 5}) and updateCache(server2.URL, {6, 9}).
TestCache == [u \in URLs |-> IF u = u1 THEN Item(<<1, 5>>, 0)
                              ELSE IF u = u2 THEN Item(<<6, 9>>, 0)
                              ELSE NoItem]

\* The server is up with an empty cache, or with the cache of the test; no request
\* is running.
Init ==
    /\ now = 0
    /\ steady = [u \in URLs |-> <<>>]
    /\ cache \in {[u \in URLs |-> NoItem], TestCache}
    /\ lastWrite = cache
    /\ rpc = [r \in Reqs |-> "idle"]
    /\ via = [r \in Reqs |-> "none"]
    /\ asked = [r \in Reqs |-> NoRequest]
    /\ urls = [r \in Reqs |-> <<>>]
    /\ ctx = [r \in Reqs |-> "live"]
    /\ results = [r \in Reqs |-> <<>>]
    /\ final = [r \in Reqs |-> NoFinal]
    /\ response = [r \in Reqs |-> NoResponse]
    /\ fpc = [f \in Fetchers |-> "none"]
    /\ out = [f \in Fetchers |-> <<>>]
    /\ err = [f \in Fetchers |-> "none"]
    /\ replaced = [f \in Fetchers |-> NoItem]
    /\ attempts = [f \in Fetchers |-> 0]
    /\ sends = [f \in Fetchers |-> 0]

\* ------------------------------------------------------------- actions
UrlOf(f) == urls[f[1]][f[2]]

\* The number of sources the requests so far have named.
SourcesNamed == Sum([r \in Reqs |-> Len(urls[r])], NReq)

\* The lists of sources a further request may name in Spec and SpecSeq.
Affordable == {us \in URLLists : SourcesNamed + Len(us) <= MaxSources}

\* The "u" query values of the requests sent: a request the handler rejects is sent
\* without any (the handler does not read them).
QueryValues(method, path) == IF method = "GET" /\ path = "/numbers" THEN Affordable ELSE {<<>>}

\* Mutant of processURLs: cancel() is called at once, not deferred.
processURLsCancelsFirst(r, parentDone, us) ==
    /\ rpc' = [rpc EXCEPT ![r] = "collect"]
    /\ urls' = [urls EXCEPT ![r] = us]
    /\ ctx' = [ctx EXCEPT ![r] = "cancel"]
    /\ fpc' = [f \in Fetchers |-> IF f[1] = r /\ f[2] <= Len(us) THEN "start" ELSE fpc[f]]

\* processURLs(ctx, urls) up to its receive loop: childCtx is derived from ctx (and is
\* done at once when ctx is), and one goroutine is started per url.
processURLs(r, parentDone, us) ==
    /\ rpc' = [rpc EXCEPT ![r] = "collect"]
    /\ urls' = [urls EXCEPT ![r] = us]
    /\ ctx' = [ctx EXCEPT ![r] = IF parentDone THEN "parent" ELSE "live"]
    /\ fpc' = [f \in Fetchers |-> IF f[1] = r /\ f[2] <= Len(us) THEN "start" ELSE fpc[f]]

\* Mutant of NotFound: the method is not looked at.
NotFoundByPath(method, path) == path # "/numbers"

\* if r.URL.Path != "/numbers" and if r.Method != "GET", each answered with
\* http.StatusNotFound.
NotFound(method, path) == path # "/numbers" \/ method # "GET"

\* numbersHandler: rejects another path or method with 404 (http.Error, no payload),
\* else aggregates the "u" query values under context.Background().  Requests take
\* the slots in order.
numbersHandler(r, method, path, us) ==
    /\ rpc[r] = "idle"
    /\ \A q \in Reqs : q < r => rpc[q] # "idle"
    /\ via' = [via EXCEPT ![r] = "handler"]
    /\ asked' = [asked EXCEPT ![r] = [method |-> method, path |-> path]]
    /\ IF NotFound(method, path)
       THEN /\ rpc' = [rpc EXCEPT ![r] = "done"]
            /\ response' = [response EXCEPT ![r].status = 404]
            /\ UNCHANGED <<urls, ctx, fpc>>
       ELSE /\ processURLs(r, FALSE, us)
            /\ UNCHANGED response
    /\ UNCHANGED <<now, steady, cacheVars, results, final, out, err, replaced, attempts, sends>>

\* processURLs called with a context that is already cancelled, as the test
\* "timeout - cached result" calls it.
DirectCall(r, us) ==
    /\ rpc[r] = "idle"
    /\ \A q \in Reqs : q < r => rpc[q] # "idle"
    /\ via' = [via EXCEPT ![r] = "direct"]
    /\ processURLs(r, TRUE, us)
    /\ UNCHANGED <<now, steady, cacheVars, asked, results, final, response, out, err, replaced, attempts, sends>>

\* Mutant of FallbackList: a failure yields an empty result, the cache is not asked.
FallbackListEmpty(f) == <<>>

\* The list of result{data: payload{Numbers: getResultFromCache(url)}}.
FallbackList(f) == getResultFromCache(cache, UrlOf(f), now)

\* Mutant of Fallback: a fetcher that resolves via cache ends without sending.
FallbackNoSend(f, why) ==
    /\ out' = [out EXCEPT ![f] = FallbackList(f)]
    /\ err' = [err EXCEPT ![f] = why]
    /\ fpc' = [fpc EXCEPT ![f] = "done"]

\* The fetcher resolves via cache: the operand of ch <- is evaluated (the send itself
\* is Deliver).
Fallback(f, why) ==
    /\ out' = [out EXCEPT ![f] = FallbackList(f)]
    /\ err' = [err EXCEPT ![f] = why]
    /\ fpc' = [fpc EXCEPT ![f] = "send"]

\* Mutant of CtxDone: the select never takes the Done case.
CtxDoneIgnored(r) == FALSE

\* case <-ctx.Done() of the select is ready.
CtxDone(r) == ctx[r] # "live"

\* getResponseFromURL's select, and makeGetRequestForURL up to client.Do.
getResponseFromURL(f) ==
    /\ fpc[f] = "start"
    /\ IF CtxDone(f[1])
       THEN Fallback(f, "done") /\ UNCHANGED attempts
       ELSE IF Malformed(UrlOf(f))
       THEN Fallback(f, "request") /\ UNCHANGED attempts
       ELSE /\ fpc' = [fpc EXCEPT ![f] = "inflight"]
            /\ attempts' = [attempts EXCEPT ![f] = @ + 1]
            /\ UNCHANGED <<out, err>>
    /\ UNCHANGED <<now, steady, cacheVars, reqVars, replaced, sends>>

\* Mutant of DoFails: a source that failed loses its entry.
DoFailsDrops(f) ==
    /\ fpc[f] = "inflight"
    /\ Fallback(f, "do")
    /\ cache' = CacheDelete(cache, UrlOf(f))
    /\ UNCHANGED <<now, steady, lastWrite, reqVars, replaced, attempts, sends>>

\* client.Do returns an error: the transport failed, or childCtx was done before the
\* response came.
DoFails(f) ==
    /\ fpc[f] = "inflight"
    /\ Fallback(f, "do")
    /\ UNCHANGED <<now, steady, cacheVars, reqVars, replaced, attempts, sends>>

\* Mutant of DecodeFails: a body that does not decode is asked for again.
DecodeFailsRetries(f) ==
    /\ fpc[f] = "inflight"
    /\ attempts[f] < 2
    /\ fpc' = [fpc EXCEPT ![f] = "start"]
    /\ UNCHANGED <<now, steady, cacheVars, reqVars, out, err, replaced, attempts, sends>>

\* client.Do returns a response whose body does not decode.
DecodeFails(f) ==
    /\ fpc[f] = "inflight"
    /\ Fallback(f, "decode")
    /\ UNCHANGED <<now, steady, cacheVars, reqVars, replaced, attempts, sends>>

\* Mutant of ShouldCache: the cache is updated with whatever was decoded.
ShouldCacheAlways(numbers) == TRUE

\* if len(numbers.Numbers) > 0
ShouldCache(numbers) == Len(numbers) > 0

\* Mutant of Decoded: a stored list is preferred to the one just decoded.
DecodedPrefersCache(f, numbers) ==
    /\ fpc[f] = "inflight"
    /\ numbers \in ResponsesOf(UrlOf(f))
    /\ out' = [out EXCEPT ![f] = IF Found(cache, UrlOf(f), now)
                                  THEN cache[UrlOf(f)].val ELSE numbers]
    /\ IF ShouldCache(numbers)
       THEN /\ cache' = CacheDelete(cache, UrlOf(f))
            /\ replaced' = [replaced EXCEPT ![f] = cache[UrlOf(f)]]
            /\ fpc' = [fpc EXCEPT ![f] = "add"]
       ELSE /\ fpc' = [fpc EXCEPT ![f] = "send"]
            /\ UNCHANGED <<cache, replaced>>
    /\ UNCHANGED <<now, steady, lastWrite, reqVars, err, attempts, sends>>

\* The response decodes to numbers.  A non-empty list starts updateCache, whose first
\* step is serverCache.Delete(url); an empty one is sent as it is.
Decoded(f, numbers) ==
    /\ fpc[f] = "inflight"
    /\ numbers \in ResponsesOf(UrlOf(f))
    /\ out' = [out EXCEPT ![f] = numbers]
    /\ IF ShouldCache(numbers)
       THEN /\ cache' = CacheDelete(cache, UrlOf(f))
            /\ replaced' = [replaced EXCEPT ![f] = cache[UrlOf(f)]]
            /\ fpc' = [fpc EXCEPT ![f] = "add"]
       ELSE /\ fpc' = [fpc EXCEPT ![f] = "send"]
            /\ UNCHANGED <<cache, replaced>>
    /\ UNCHANGED <<now, steady, lastWrite, reqVars, err, attempts, sends>>

\* The second step of updateCache, serverCache.Add, after which updateCache returns.
UpdateCacheAdd(f) ==
    /\ fpc[f] = "add"
    /\ cache' = CacheAdd(cache, UrlOf(f), out[f], now)
    /\ lastWrite' = [lastWrite EXCEPT ![UrlOf(f)] = Item(out[f], now)]
    /\ fpc' = [fpc EXCEPT ![f] = "send"]
    /\ UNCHANGED <<now, steady, reqVars, out, err, replaced, attempts, sends>>

\* Mutant of LoopDone: the loop runs one time too few (i < len(urls)-1).
LoopDoneOneShort(r) == Len(results[r]) + 1 >= Len(urls[r])

\* The condition that ends for i := 0; i < len(urls); i++.
LoopDone(r) == Len(results[r]) = Len(urls[r])

\* Mutant of Deliver: the return after the send of an error path is missing, so that
\* fetcher goes on to the send at the end of makeGetRequestForURL.
DeliverNoReturn(f) ==
    /\ fpc[f] = "send"
    /\ rpc[f[1]] = "collect"
    /\ ~LoopDone(f[1])
    /\ results' = [results EXCEPT ![f[1]] = Append(@, out[f])]
    /\ fpc' = [fpc EXCEPT ![f] = IF err[f] # "none" THEN "send" ELSE "done"]
    /\ out' = [out EXCEPT ![f] = <<>>]
    /\ err' = [err EXCEPT ![f] = "none"]
    /\ replaced' = [replaced EXCEPT ![f] = NoItem]
    /\ sends' = [sends EXCEPT ![f] = @ + 1]
    /\ UNCHANGED <<now, steady, cacheVars, rpc, via, asked, urls, ctx, final, response, attempts>>

\* ch <- result meets results = append(results, <-ch); the goroutine then ends, and
\* its locals with it.
Deliver(f) ==
    /\ fpc[f] = "send"
    /\ rpc[f[1]] = "collect"
    /\ ~LoopDone(f[1])
    /\ results' = [results EXCEPT ![f[1]] = Append(@, out[f])]
    /\ fpc' = [fpc EXCEPT ![f] = "done"]
    /\ out' = [out EXCEPT ![f] = <<>>]
    /\ err' = [err EXCEPT ![f] = "none"]
    /\ replaced' = [replaced EXCEPT ![f] = NoItem]
    /\ sends' = [sends EXCEPT ![f] = @ + 1]
    /\ UNCHANGED <<now, steady, cacheVars, rpc, via, asked, urls, ctx, final, response, attempts>>

\* The receive loop has run len(urls) times: processURLs returns its results, and the
\* deferred cancel runs.
Return(r) ==
    /\ rpc[r] = "collect"
    /\ LoopDone(r)
    /\ rpc' = [rpc EXCEPT ![r] = "reduce"]
    /\ ctx' = [ctx EXCEPT ![r] = "cancel"]
    /\ attempts' = [f \in Fetchers |-> IF f[1] = r THEN 0 ELSE attempts[f]]
    /\ UNCHANGED <<now, steady, cacheVars, via, asked, urls, results, final, response, fpc, out, err, replaced, sends>>

\* The caller reduces the results with processFinalResult; numbersHandler then writes
\* status 200 and the encoded payload.
Reduce(r) ==
    /\ rpc[r] = "reduce"
    /\ rpc' = [rpc EXCEPT ![r] = "done"]
    /\ final' = [final EXCEPT ![r] = processFinalResult(results[r])]
    /\ response' = [response EXCEPT ![r] =
                       IF via[r] = "handler"
                       THEN [status |-> 200, body |-> EncodePayload(processFinalResult(results[r]))]
                       ELSE @]
    /\ UNCHANGED <<now, steady, cacheVars, via, asked, urls, ctx, results, fetVars>>

\* timeoutGetReq elapses: childCtx is done.
DeadlineFires(r) ==
    /\ rpc[r] = "collect"
    /\ ctx[r] = "live"
    /\ ctx' = [ctx EXCEPT ![r] = "deadline"]
    /\ UNCHANGED <<now, steady, cacheVars, rpc, via, asked, urls, results, final, response, fetVars>>

Tick ==
    /\ now < MaxTime
    /\ now' = now + 1
    /\ UNCHANGED <<steady, cacheVars, reqVars, fetVars>>

Next ==
    \/ \E r \in Reqs, m \in Methods, p \in Paths :
          \E us \in QueryValues(m, p) : numbersHandler(r, m, p, us)
    \/ \E r \in Reqs, us \in Affordable : DirectCall(r, us)
    \/ \E f \in Fetchers : getResponseFromURL(f)
    \/ \E f \in Fetchers : DoFails(f)
    \/ \E f \in Fetchers : DecodeFails(f)
    \/ \E f \in Fetchers, numbers \in Responses : Decoded(f, numbers)
    \/ \E f \in Fetchers : UpdateCacheAdd(f)
    \/ \E f \in Fetchers : Deliver(f)
    \/ \E r \in Reqs : Return(r)
    \/ \E r \in Reqs : Reduce(r)
    \/ \E r \in Reqs : DeadlineFires(r)
    \/ Tick

Spec == Init /\ [][Next]_vars

\* ------------------------------------------------------------ fairness
\* Every goroutine that can take a step is scheduled; the timer of childCtx fires;
\* client.Do returns once childCtx is done.  A source need not ever answer.
Fairness ==
    /\ \A r \in Reqs :
          /\ WF_vars(DeadlineFires(r))
          /\ WF_vars(Return(r))
          /\ WF_vars(Reduce(r))
    /\ \A f \in Fetchers :
          /\ WF_vars(getResponseFromURL(f))
          /\ WF_vars(CtxDone(f[1]) /\ DoFails(f))
          /\ WF_vars(UpdateCacheAdd(f))
          /\ WF_vars(Deliver(f))

\* The steps of Next but the clock of the cache: no step of processURLs waits on it.
NextFair ==
    \/ \E r \in Reqs, m \in Methods, p \in Paths :
          \E us \in QueryValues(m, p) : numbersHandler(r, m, p, us)
    \/ \E r \in Reqs, us \in Affordable : DirectCall(r, us)
    \/ \E f \in Fetchers : getResponseFromURL(f)
    \/ \E f \in Fetchers : DoFails(f)
    \/ \E f \in Fetchers : DecodeFails(f)
    \/ \E f \in Fetchers, numbers \in Responses : Decoded(f, numbers)
    \/ \E f \in Fetchers : UpdateCacheAdd(f)
    \/ \E f \in Fetchers : Deliver(f)
    \/ \E r \in Reqs : Return(r)
    \/ \E r \in Reqs : Reduce(r)
    \/ \E r \in Reqs : DeadlineFires(r)

SpecFair == Init /\ [][NextFair]_vars /\ Fairness

\* ------------------------------------------------- sequential writers
\* Some fetcher other than f is between the two steps of updateCache for the key u.
OtherWriter(f, u) ==
    \E g \in Fetchers : g # f /\ fpc[g] = "add" /\ UrlOf(g) = u

\* Decoded, when no other call of updateCache for the same key is under way.
DecodedAlone(f, numbers) ==
    /\ fpc[f] = "inflight"
    /\ ShouldCache(numbers) => ~OtherWriter(f, UrlOf(f))
    /\ Decoded(f, numbers)

\* The runs in which the calls of updateCache for one key do not overlap.
NextSeq ==
    \/ \E r \in Reqs, m \in Methods, p \in Paths :
          \E us \in QueryValues(m, p) : numbersHandler(r, m, p, us)
    \/ \E r \in Reqs, us \in Affordable : DirectCall(r, us)
    \/ \E f \in Fetchers : getResponseFromURL(f)
    \/ \E f \in Fetchers : DoFails(f)
    \/ \E f \in Fetchers : DecodeFails(f)
    \/ \E f \in Fetchers, numbers \in Responses : DecodedAlone(f, numbers)
    \/ \E f \in Fetchers : UpdateCacheAdd(f)
    \/ \E f \in Fetchers : Deliver(f)
    \/ \E r \in Reqs : Return(r)
    \/ \E r \in Reqs : Reduce(r)
    \/ \E r \in Reqs : DeadlineFires(r)
    \/ Tick

SpecSeq == Init /\ [][NextSeq]_vars

\* --------------------------------------------- the reducer on its own
\* Lists a source may answer with: unsorted, with repeats, negative, empty.
ReduceLists == {<<>>, <<1, 2, 7>>, <<1, 5>>, <<5, 1>>, <<7, 7>>, <<-3, 9>>}

\* The first caller holds some results of processURLs and is about to reduce them.
InitReduce ==
    /\ now = 0
    /\ steady = [u \in URLs |-> <<>>]
    /\ cache = [u \in URLs |-> NoItem]
    /\ lastWrite = cache
    /\ rpc = [r \in Reqs |-> IF r = 1 THEN "reduce" ELSE "idle"]
    /\ via \in {[r \in Reqs |-> IF r = 1 THEN v ELSE "none"] : v \in {"handler", "direct"}}
    /\ asked = [r \in Reqs |-> IF via[r] = "handler"
                               THEN [method |-> "GET", path |-> "/numbers"]
                               ELSE NoRequest]
    /\ urls = [r \in Reqs |-> <<>>]
    /\ ctx = [r \in Reqs |-> IF r = 1 THEN "cancel" ELSE "live"]
    /\ results \in {[r \in Reqs |-> IF r = 1 THEN res ELSE <<>>] : res \in SeqsUpTo(ReduceLists, MaxRes)}
    /\ final = [r \in Reqs |-> NoFinal]
    /\ response = [r \in Reqs |-> NoResponse]
    /\ fpc = [f \in Fetchers |-> "none"]
    /\ out = [f \in Fetchers |-> <<>>]
    /\ err = [f \in Fetchers |-> "none"]
    /\ replaced = [f \in Fetchers |-> NoItem]
    /\ attempts = [f \in Fetchers |-> 0]
    /\ sends = [f \in Fetchers |-> 0]

NextReduce == \E r \in Reqs : Reduce(r)

SpecReduce == InitReduce /\ [][NextReduce]_vars


\* --------------------------------------------- the same request, again
\* The lists of sources for which a request can be constructed.
GoodURLLists == SeqsUpTo(URLs \ {uBad}, MaxK)

\* As Init, and every source has the list it answers with from now on.
InitTwice ==
    /\ now = 0
    /\ steady \in {a \in [URLs -> Responses] : \A u \in URLs : a[u] \in ResponsesOf(u)}
    /\ cache \in {[u \in URLs |-> NoItem], TestCache}
    /\ lastWrite = cache
    /\ rpc = [r \in Reqs |-> "idle"]
    /\ via = [r \in Reqs |-> "none"]
    /\ asked = [r \in Reqs |-> NoRequest]
    /\ urls = [r \in Reqs |-> <<>>]
    /\ ctx = [r \in Reqs |-> "live"]
    /\ results = [r \in Reqs |-> <<>>]
    /\ final = [r \in Reqs |-> NoFinal]
    /\ response = [r \in Reqs |-> NoResponse]
    /\ fpc = [f \in Fetchers |-> "none"]
    /\ out = [f \in Fetchers |-> <<>>]
    /\ err = [f \in Fetchers |-> "none"]
    /\ replaced = [f \in Fetchers |-> NoItem]
    /\ attempts = [f \in Fetchers |-> 0]
    /\ sends = [f \in Fetchers |-> 0]

\* GET /numbers once the requests before it are answered, naming the sources the
\* first request named.
AggregateAgain(r, us) ==
    /\ \A q \in Reqs : q < r => rpc[q] = "done" /\ us = urls[q]
    /\ numbersHandler(r, "GET", "/numbers", us)

\* The source answers with its steady list.
DecodedSteady(f) ==
    /\ fpc[f] = "inflight"
    /\ Decoded(f, steady[UrlOf(f)])

\* The runs in which one request is repeated, every source answers, with the same
\* list each time, before the deadline, and nothing else runs.
NextTwice ==
    \/ \E r \in Reqs, us \in GoodURLLists : AggregateAgain(r, us)
    \/ \E f \in Fetchers : getResponseFromURL(f)
    \/ \E f \in Fetchers : DecodedSteady(f)
    \/ \E f \in Fetchers : UpdateCacheAdd(f)
    \/ \E f \in Fetchers : Deliver(f)
    \/ \E r \in Reqs : Return(r)
    \/ \E r \in Reqs : Reduce(r)
    \/ Tick

SpecTwice == InitTwice /\ [][NextTwice]_vars

\* ------------------------------------------------------------- claims
Spawned(f) == f[2] <= Len(urls[f[1]])

\* What a lookup of key u finds in cache c at time t, written out.
Lookup(c, u, t) == IF c[u].present /\ t <= c[u].exp THEN c[u].val ELSE <<>>

\* Fetcher f resolves via cache in this step.
FallsBack(f) == fpc[f] \in {"start", "inflight"} /\ err'[f] # "none"

\* Some call of updateCache for key u is between its two steps.
Writing(u) == \E f \in Fetchers : fpc[f] = "add" /\ UrlOf(f) = u

\* C1: processURLs never holds more than len(urls) results and returns exactly
\* len(urls) of them, whatever the sources did (success, failure, timeout), also for
\* no sources and for a source named twice.
C1_ExactlyKResults ==
    \A r \in Reqs :
        /\ Len(results[r]) <= Len(urls[r])
        /\ rpc[r] \in {"reduce", "done"} => Len(results[r]) = Len(urls[r])

C1_Witness ==
    \E r \in Reqs :
        /\ rpc[r] = "reduce"
        /\ urls[r] = <<u1, u1>>
        /\ results[r] = <<<<>>, <<2>>>>

\* C2: while a call updateCache(S, new) is between its two steps and the item it
\* replaces has not expired, a fetcher that falls back for S gets the old list or the
\* new one, never a miss.
C2_AtomicReplace ==
    [][\A f \in Fetchers, g \in Fetchers :
          (/\ f # g
           /\ fpc[f] = "add"
           /\ replaced[f].present /\ now <= replaced[f].exp
           /\ FallsBack(g)
           /\ UrlOf(g) = UrlOf(f))
          => out'[g] \in {replaced[f].val, out[f]}]_vars

\* C3: once no call of updateCache for S is under way, the unexpired entry of S is the
\* list of the call that returned last.
C3_LastFinishedWriteStored ==
    \A u \in URLs :
        (lastWrite[u].present /\ ~Writing(u) /\ now <= lastWrite[u].exp)
        => getResultFromCache(cache, u, now) = lastWrite[u].val

\* C4: the fetchers of a processURLs whose context was already cancelled never issue a
\* request and never write the cache; each resolves with the lookup of its own source at
\* that moment (empty on a miss); with the cache of the test, {1,5} and {6,9}, untouched
\* and unexpired, the aggregated result is [1,5,6,9].
C4_AlreadyCancelled ==
    [][/\ \A f \in Fetchers :
            (ctx[f[1]] = "parent" /\ Spawned(f)) =>
                /\ fpc'[f] \notin {"inflight", "add"}
                /\ attempts'[f] = 0
                /\ fpc'[f] # fpc[f] => cache' = cache
                /\ (fpc[f] = "start" /\ fpc'[f] # "start") =>
                       (fpc'[f] = "send" /\ out'[f] = Lookup(cache, UrlOf(f), now))
       /\ \A r \in Reqs :
            (/\ via[r] = "direct" /\ rpc[r] = "reduce" /\ rpc'[r] = "done"
             /\ urls[r] = <<u1, u2>>
             /\ cache = TestCache /\ now <= cacheExpiration
             /\ \A q \in Reqs \ {r} : rpc[q] = "idle")
            => final'[r].items = <<1, 5, 6, 9>>]_vars

C4_Witness ==
    \E r \in Reqs :
        /\ via[r] = "direct" /\ rpc[r] = "done"
        /\ urls[r] = <<u1, u2>>
        /\ cache = TestCache /\ now <= cacheExpiration
        /\ \A q \in Reqs \ {r} : rpc[q] = "idle"
        /\ final[r].items = <<1, 5, 6, 9>>

\* C5: a fetcher that fails (request not constructed, client.Do error, deadline during
\* the call, body not decoded) resolves with the cache lookup of its own source, touches
\* neither the other fetchers nor processURLs, its caller or the cache, and its one send
\* delivers exactly that list.
C5_FailureBecomesFallback ==
    [][\A f \in Fetchers :
          /\ FallsBack(f) =>
                /\ fpc'[f] = "send"
                /\ out'[f] = Lookup(cache, UrlOf(f), now)
                /\ \A g \in Fetchers \ {f} : fpc'[g] = fpc[g] /\ out'[g] = out[g] /\ err'[g] = err[g]
                /\ UNCHANGED <<rpc, results, final, response, cache>>
          /\ (fpc[f] = "send" /\ err[f] # "none" /\ fpc'[f] # "send") =>
                /\ fpc'[f] = "done"
                /\ sends[f] = 0 /\ sends'[f] = 1
                /\ results'[f[1]] = Append(results[f[1]], out[f])
                /\ UNCHANGED <<rpc, final, response>>]_vars

C5_Witness ==
    \E f \in Fetchers :
        /\ fpc[f] = "send" /\ err[f] = "do"
        /\ ctx[f[1]] = "deadline"
        /\ out[f] = <<1, 5>>
        /\ \E g \in Fetchers : g[1] = f[1] /\ g # f /\ fpc[g] = "send" /\ err[g] = "none" /\ out[g] = <<6, 9>>

\* C6: processFinalResult returns a strictly ascending sequence whose values are exactly
\* the values of all outcome lists; {1,2,7} and {1,5} give [1,2,5,7].
C6_SortedUnion ==
    \A r \in Reqs :
        rpc[r] = "done" =>
            LET s == final[r].items
            IN  /\ \A i \in 1..Len(s) - 1 : s[i] < s[i + 1]
                /\ {s[i] : i \in 1..Len(s)} =
                      UNION {{results[r][k][j] : j \in 1..Len(results[r][k])} : k \in 1..Len(results[r])}
                /\ results[r] = <<<<1, 2, 7>>, <<1, 5>>>> => s = <<1, 2, 5, 7>>

C6_Witness ==
    /\ rpc[1] = "done"
    /\ results[1] = <<<<1, 2, 7>>, <<>>, <<5, 1>>>>
    /\ final[1].items = <<1, 2, 5, 7>>

\* The sequence res[p[1]], ..., res[p[n]].
Permuted(res, p) == [i \in 1..Len(res) |-> res[p[i]]]

\* C7: processFinalResult returns the same sequence for every order in which the
\* outcomes arrive.
C7_OrderIndependent ==
    \A r \in Reqs :
        rpc[r] = "done" =>
            \A p \in Permutations(1..Len(results[r])) :
                processFinalResult(Permuted(results[r], p)).items = final[r].items

C7_Witness ==
    /\ rpc[1] = "done"
    /\ results[1] = <<<<5, 1>>, <<-3, 9>>, <<1, 2, 7>>>>
    /\ final[1].items = <<-3, 1, 2, 5, 7, 9>>

\* C8: a fetch that succeeds with an empty list resolves with the empty list and leaves
\* the cache as it was; only a non-empty list starts updateCache.
C8_EmptySuccessKeepsCache ==
    [][\A f \in Fetchers :
          (fpc[f] = "inflight" /\ fpc'[f] # "inflight" /\ err'[f] = "none") =>
              \/ fpc'[f] = "add" /\ out'[f] # <<>>
              \/ fpc'[f] = "send" /\ out'[f] = <<>> /\ cache' = cache]_vars

C8_Witness ==
    \E f \in Fetchers :
        /\ fpc[f] = "send" /\ err[f] = "none" /\ attempts[f] = 1
        /\ out[f] = <<>>
        /\ cache[UrlOf(f)] = Item(<<1, 5>>, 0) /\ now <= cacheExpiration

\* The response with status 200 and body {"numbers": []}.
EmptyOK == [status |-> 200, body |-> [isNull |-> FALSE, numbers |-> <<>>]]

\* C9: a fetcher that fails while its source has no unexpired entry resolves with an
\* empty list, and a request all of whose len(urls) outcomes are empty is reduced to an
\* empty, non-nil list and answered with status 200 and {"numbers": []}.
C9_AllFailEmptyOK ==
    [][/\ \A f \in Fetchers :
            (FallsBack(f) /\ ~(cache[UrlOf(f)].present /\ now <= cache[UrlOf(f)].exp))
            => out'[f] = <<>>
       /\ \A r \in Reqs :
            (/\ rpc[r] = "reduce" /\ rpc'[r] = "done"
             /\ \A k \in 1..Len(results[r]) : results[r][k] = <<>>)
            => /\ Len(results[r]) = Len(urls[r])
               /\ final'[r] = [isNil |-> FALSE, items |-> <<>>]
               /\ via[r] = "handler" => response'[r] = EmptyOK]_vars

C9_Witness ==
    \E r \in Reqs :
        /\ rpc[r] = "done" /\ via[r] = "handler"
        /\ urls[r] = <<uBad, u1>>
        /\ results[r] = <<<<>>, <<>>>>
        /\ cache[u1] = NoItem
        /\ response[r] = EmptyOK

\* C10: when the calls of updateCache for S do not overlap, then after each of them the
\* entry of S is exactly the item of the call that returned last, also when that call
\* replaced an unexpired entry; a lookup returns its list until it expires.
C10_SequentialWritesReplace ==
    \A u \in URLs :
        (lastWrite[u].present /\ ~Writing(u)) =>
            /\ cache[u] = lastWrite[u]
            /\ now <= lastWrite[u].exp => getResultFromCache(cache, u, now) = lastWrite[u].val

C10_Witness ==
    \E f \in Fetchers :
        /\ fpc[f] = "send" /\ UrlOf(f) = u1
        /\ replaced[f] = Item(<<1, 5>>, 0) /\ now <= replaced[f].exp
        /\ out[f] = <<2>>
        /\ getResultFromCache(cache, u1, now) = <<2>>

\* C11: when a request is repeated after it was answered, and every source answers both
\* times with the same list, the two aggregated results and the two responses are the
\* same, although the first run wrote the cache.
C11_Idempotent ==
    \A r \in Reqs, q \in Reqs :
        (rpc[r] = "done" /\ rpc[q] = "done" /\ urls[r] = urls[q]) =>
            /\ final[r] = final[q]
            /\ response[r] = response[q]

C11_Witness ==
    /\ rpc[1] = "done" /\ rpc[2] = "done"
    /\ urls[1] = <<u1, u2>> /\ urls[2] = urls[1]
    /\ results[1] = <<<<2>>, <<6, 9>>>>
    /\ results[2] = <<<<6, 9>>, <<2>>>>
    /\ cache[u1].val = <<2>> /\ lastWrite[u1].val = <<2>>
    /\ final[2].items = <<2, 6, 9>>

\* C12: a fetch of S that decoded a non-empty list L resolves with L, and when its
\* updateCache returns the entry of S holds L; a fetch of S that then falls back, no
\* other write of S being under way and L's item unexpired, resolves with L.
C12_SuccessThenFallback ==
    [][\A f \in Fetchers :
          /\ (fpc[f] = "add" /\ fpc'[f] = "send") =>
                 /\ Len(out[f]) > 0 /\ out'[f] = out[f] /\ err'[f] = "none"
                 /\ getResultFromCache(cache', UrlOf(f), now) = out[f]
          /\ (/\ FallsBack(f)
              /\ lastWrite[UrlOf(f)].present /\ now <= lastWrite[UrlOf(f)].exp
              /\ ~Writing(UrlOf(f)))
             => out'[f] = lastWrite[UrlOf(f)].val]_vars

\* C13: the cache changes only in the two steps of updateCache, run by a fetcher that
\* decoded a non-empty list without error; a fetcher that resolves via cache (context
\* done, request not constructed, transport error, decode error) leaves the whole cache
\* as it was; no step stores an empty list.
C13_OnlySuccessWrites ==
    [][/\ cache' # cache =>
            \E f \in Fetchers :
                /\ Spawned(f) /\ err'[f] = "none" /\ Len(out'[f]) > 0
                /\ \/ fpc[f] = "inflight" /\ fpc'[f] = "add"
                   \/ fpc[f] = "add" /\ fpc'[f] = "send"
                /\ \A u \in URLs \ {UrlOf(f)} : cache'[u] = cache[u]
       /\ \A f \in Fetchers : FallsBack(f) => cache' = cache
       /\ \A u \in URLs :
            (cache'[u] # cache[u] /\ cache'[u].present) => Len(cache'[u].val) > 0]_vars

C13_Witness ==
    \E f \in Fetchers, g \in Fetchers, h \in {"done", "request"} :
        /\ fpc[f] = "send" /\ err[f] = h
        /\ fpc[g] = "send" /\ err[g] \in {"do", "decode"}
        /\ UrlOf(g) = u1 /\ out[g] = <<1, 5>>
        /\ cache = TestCache

\* C14: under fairness every processURLs that was called returns, and every fetcher it
\* started delivers its outcome and ends, whatever the sources do (answer, fail, or stay
\* silent until the deadline).
C14_ProcessURLsReturns ==
    \A r \in Reqs :
        (rpc[r] = "collect") ~>
            /\ rpc[r] \in {"reduce", "done"}
            /\ \A f \in Fetchers :
                  (f[1] = r /\ Spawned(f)) => (fpc[f] = "done" /\ sends[f] = 1)

C14_Witness ==
    \E r \in Reqs :
        /\ rpc[r] = "collect" /\ ctx[r] = "deadline" /\ LoopDone(r)
        /\ urls[r] = <<u1, u2>>
        /\ results[r] = <<<<>>, <<>>>>
        /\ \A f \in Fetchers : f[1] = r => fpc[f] = "done" /\ attempts[f] = 1

\* C15: a fetcher calls client.Do at most once: not at all when its context is done at
\* the select or the request cannot be constructed, and after a failed call it resolves
\* via cache without another call.
C15_AtMostOneAttempt ==
    [][\A f \in Fetchers :
          /\ attempts'[f] <= 1
          /\ fpc'[f] = "inflight" => (fpc[f] \in {"start", "inflight"} /\ attempts'[f] = 1)
          /\ (fpc[f] = "start" /\ CtxDone(f[1]) /\ fpc'[f] # "start") =>
                 (fpc'[f] = "send" /\ attempts'[f] = 0)
          /\ (fpc[f] = "inflight" /\ fpc'[f] # "inflight") =>
                 (fpc'[f] \in {"add", "send"} /\ attempts'[f] = 1)
          /\ fpc[f] \in {"add", "send"} => fpc'[f] \in {"add", "send", "done"}]_vars

C15_Witness ==
    \E f \in Fetchers, g \in Fetchers :
        /\ f[1] = g[1]
        /\ fpc[f] = "send" /\ err[f] \in {"do", "decode"} /\ attempts[f] = 1
        /\ fpc[g] = "send" /\ err[g] = "done" /\ attempts[g] = 0

\* C16: once no call of updateCache for S is under way, with t0 the time at which the
\* last call for S stored its item: a lookup of S finds a list while less than
\* cacheExpiration has passed since t0, finds nothing once more than cacheExpiration
\* has passed, and the stored item expires at t0 + cacheExpiration (at exactly
\* t0 + cacheExpiration go-cache still returns the item).
C16_FixedTTL ==
    \A u \in URLs :
        (lastWrite[u].present /\ ~Writing(u)) =>
            LET t0 == lastWrite[u].exp - cacheExpiration IN
            /\ now - t0 < cacheExpiration =>
                   (Found(cache, u, now) /\ getResultFromCache(cache, u, now) # <<>>)
            /\ now - t0 > cacheExpiration => getResultFromCache(cache, u, now) = <<>>
            /\ cache[u].present /\ cache[u].exp = t0 + cacheExpiration

\* The elements of a list.
Elems(l) == {l[i] : i \in 1..Len(l)}

\* The numbers source u can answer with, and those the test stores under its key.
Own(u) == UNION {Elems(l) : l \in ResponsesOf(u)} \cup Elems(TestCache[u].val)

\* Lists hold numbers of their own source only: a fetcher's outcome, an entry of the
\* cache, a received result (of some source the request names), the aggregated result.
OwnNumbersOnly ==
    /\ \A f \in Fetchers : Spawned(f) => Elems(out[f]) \subseteq Own(UrlOf(f))
    /\ \A u \in URLs : Elems(cache[u].val) \subseteq Own(u)
    /\ \A r \in Reqs : \A i \in 1..Len(results[r]) :
          \E j \in 1..Len(urls[r]) : Elems(results[r][i]) \subseteq Own(urls[r][j])
    /\ \A r \in Reqs :
          Elems(final[r].items) \subseteq UNION {Own(urls[r][j]) : j \in 1..Len(urls[r])}

\* C17: every number of an outcome for source S is one S answered with or one stored
\* under S's key; a fetcher that resolves via cache takes the entry of its own source
\* or nothing; so the aggregated result holds numbers of the requested sources only.
C17_OwnSourceOnly ==
    [][/\ OwnNumbersOnly'
       /\ \A f \in Fetchers :
            FallsBack(f) => out'[f] \in {<<>>, cache[UrlOf(f)].val}]_vars

C17_Witness ==
    \E f \in Fetchers, g \in Fetchers :
        /\ f[1] = g[1] /\ Spawned(f) /\ Spawned(g)
        /\ UrlOf(f) = u1 /\ fpc[f] = "send" /\ err[f] = "none" /\ out[f] = <<2>>
        /\ UrlOf(g) = u2 /\ fpc[g] = "send" /\ err[g] # "none" /\ out[g] = <<6, 9>>
        /\ cache[u1].val = <<2>>

\* C18: a call of numbersHandler with another path than /numbers or another method
\* than GET ends at once with status 404 and no payload, starts no fetcher and leaves
\* the cache as it was; a GET on /numbers starts the aggregation, and only such a call
\* is answered with status 200.
C18_RejectsBeforeWork ==
    [][\A r \in Reqs :
          /\ (rpc[r] = "idle" /\ via'[r] = "handler") =>
                 IF asked'[r] # [method |-> "GET", path |-> "/numbers"]
                 THEN /\ rpc'[r] = "done"
                      /\ response'[r] = [NoResponse EXCEPT !.status = 404]
                      /\ fpc' = fpc /\ urls' = urls
                      /\ cache' = cache
                 ELSE /\ rpc'[r] = "collect"
                      /\ \A k \in 1..Len(urls'[r]) : fpc'[<<r, k>>] = "start"
          /\ response'[r].status = 404 =>
                 (urls'[r] = <<>> /\ \A f \in Fetchers : f[1] = r => fpc'[f] = "none")
          /\ response'[r].status = 200 =>
                 (asked'[r] = [method |-> "GET", path |-> "/numbers"] /\ rpc[r] \in {"reduce", "done"})
          /\ (rpc[r] = "reduce" /\ rpc'[r] = "done" /\ via[r] = "handler") =>
                 response'[r].status = 200]_vars

C18_Witness ==
    \E r \in Reqs, q \in Reqs, a \in {[method |-> "POST", path |-> "/numbers"],
                                      [method |-> "GET", path |-> "/nums"]} :
        /\ asked[r] = a /\ rpc[r] = "done" /\ response[r].status = 404
        /\ asked[q] = [method |-> "GET", path |-> "/numbers"]
        /\ rpc[q] = "done" /\ response[q].status = 200
        /\ Len(urls[q]) = 2

\* Every fetcher has sent once when it has ended and not before; a processURLs that
\* has returned has no fetcher left that has not ended; what a request has received
\* is what its own fetchers have sent.
SentOnce ==
    /\ \A f \in Fetchers :
          /\ sends[f] = (IF fpc[f] = "done" THEN 1 ELSE 0)
          /\ fpc[f] # "none" <=> Spawned(f) /\ rpc[f[1]] # "idle"
    /\ \A r \in Reqs :
          /\ rpc[r] \in {"reduce", "done"} =>
                \A f \in Fetchers : f[1] = r => fpc[f] \in {"none", "done"}
          /\ Len(results[r]) = Sum([k \in 1..MaxK |-> sends[<<r, k>>]], MaxK)

\* C19: every fetcher sends on the channel of its own processURLs exactly once, on every
\* path; when processURLs returns none of its fetchers is still sending; a request
\* receives an outcome only from a fetcher of its own.
C19_ExactlyOneSend ==
    [][/\ SentOnce'
       /\ \A r \in Reqs :
            results'[r] # results[r] =>
                \E f \in Fetchers :
                    /\ f[1] = r /\ fpc[f] = "send" /\ fpc'[f] = "done"
                    /\ sends'[f] = sends[f] + 1
                    /\ results'[r] = Append(results[r], out[f])
                    /\ \A q \in Reqs \ {r} : results'[q] = results[q]]_vars

C19_Witness ==
    \E r \in Reqs, q \in Reqs :
        /\ r # q
        /\ rpc[r] = "reduce" /\ urls[r] = <<u1>> /\ results[r] = <<<<2>>>>
        /\ rpc[q] = "collect" /\ urls[q] = <<u2>> /\ fpc[<<q, 1>>] = "send"
        /\ out[<<q, 1>>] = <<6, 9>> /\ results[q] = <<>>
        /\ sends[<<r, 1>>] = 1 /\ sends[<<q, 1>>] = 0

\* C20: childCtx is cancelled by processURLs in the step in which it returns, when its
\* loop has received len(urls) outcomes, and not before; a fetcher that takes the Done
\* case of its select does so because the deadline has elapsed or the caller's context
\* was cancelled, and the context of the handler's caller is never cancelled.
C20_CancelAfterAll ==
    [][\A r \in Reqs :
          /\ ctx'[r] = "cancel" =>
                 (rpc'[r] \in {"reduce", "done"} /\ Len(results'[r]) = Len(urls'[r]))
          /\ (ctx[r] # "cancel" /\ ctx'[r] = "cancel") =>
                 (rpc[r] = "collect" /\ LoopDone(r) /\ rpc'[r] = "reduce")
          /\ rpc'[r] = "collect" => ctx'[r] \in {"live", "deadline", "parent"}
          /\ ctx'[r] = "parent" => via'[r] = "direct"
          /\ \A f \in Fetchers :
                (f[1] = r /\ err'[f] = "done" /\ err[f] # "done") =>
                    ctx[r] \in {"deadline", "parent"}]_vars

C20_Witness ==
    \E r \in Reqs, q \in Reqs :
        /\ r # q
        /\ ctx[r] = "cancel" /\ rpc[r] = "reduce" /\ Len(results[r]) = 1
        /\ ctx[q] = "deadline" /\ rpc[q] = "collect" /\ Len(urls[q]) = 1
        /\ fpc[<<q, 1>>] = "send" /\ err[<<q, 1>>] = "done"

=============================================================================
